---- MODULE Spec2Model ----
(***************************************************************************)
(* Model of the vnstock collector scripts (src/scripts/collect_*.py).      *)
(*                                                                         *)
(* Spec        : main()'s loop over the requested data types of one script *)
(*               (collect_reports of company_extra, collect_foreign_trade  *)
(*               and collect_prop_trade of trading_detail, collect_notes   *)
(*               and collect_mas_annual_plan of finance_extra): the        *)
(*               listing call, the import check, the probe, the freshness  *)
(*               check, the worker pool whose tasks go through             *)
(*               _rate_limited_call, the as_completed drain loop and the   *)
(*               combine-and-write tail.                                   *)
(* HungSpec    : the same batch with one vendor call that never returns,   *)
(*               under weak fairness of every other step.                  *)
(* MergeSpec   : the incremental saves (_save_incremental of insights and  *)
(*               macro, the per-symbol merge of collect_intraday, the      *)
(*               trending merge of collect_news) applied repeatedly to one *)
(*               CSV file.                                                 *)
(* PipelineSpec: the worker scaling of collect_pipeline.                   *)
(* PagingSpec  : the page loop of fetch_intraday_one.                      *)
(* WriteSpec   : collect_reports, collect_notes and collect_intraday side  *)
(*               by side: one combined file, or one file per symbol        *)
(*               written in the drain loop.                                *)
(* PoolSpec    : a ThreadPoolExecutor with more futures than threads.      *)
(* StatementsSpec : collect_mas_statements and its done-marker.            *)
(* InsightsSpec: the phases of collect_insights, each with one fetch       *)
(*               shared by its types.                                      *)
(* TermSpec    : a batch whose calls all return, under weak fairness of    *)
(*               the calling thread and of the pool threads.               *)
(***************************************************************************)
EXTENDS Integers, Sequences, FiniteSets, TLC

\* ------------------------------------------------------------------ bounds
\* number of symbols returned by the listing call (top_n)
NumSymbols == 3

\* ------------------------------------------------------- program constants
MAX_WORKERS == 5

Symbols == 1..NumSymbols
NoHolder == 0

\* the invoking thread, as opposed to the pool threads (one per symbol)
MainThread == 0

Collectors == {"reports", "foreign_trade", "prop_trade", "notes", "mas_annual_plan"}

\* the `collectors` table of the main() a collector belongs to
SameScript(c) ==
    CASE c = "reports" -> {"reports"}
      [] c \in {"foreign_trade", "prop_trade"} -> {"foreign_trade", "prop_trade"}
      [] c \in {"notes", "mas_annual_plan"} -> {"notes", "mas_annual_plan"}
      [] c = "intraday" -> {"intraday"}

\* what a vendor SDK call can do: a non-empty table without or with a symbol
\* column of its own, an empty table, None, or an exception
VendorOutcomes == {"rows", "symrows", "empty", "none", "raise"}

\* `for period in ["year", "quarter"]` of collect_notes.fetch
Periods == <<"year", "quarter">>

VARIABLES
    collector,   \* which collector function is being run
    mpc,         \* position of the invoking (main) thread
    task,        \* per submitted symbol: position of the pool task / future
    res,         \* per symbol: what the future holds
    api_lock,    \* holder of _api_lock (NoHolder when free)
    waited,      \* per symbol: its thread completed wait() since its last vendor call
    calls,       \* vendor calls issued in this invocation: [kind, gated, source] records
    ncalls,      \* number of vendor calls issued in this invocation
    use_cafef,   \* collect_foreign_trade: the source chosen by the probe
    all_data,    \* accumulator of the drain loop: sequence of tagged rows
    success, errors, completed,
    result,      \* return value of the collector function
    files,       \* the output CSV and (mas_annual_plan) its done-marker
    files0,      \* the files as they were when this invocation started
    checks,      \* number of is_file_fresh calls made by the invoking thread
    wrote,       \* this invocation wrote its output
    prevWrote,   \* the previous invocation of the same collector wrote its output
    installed,   \* the paid package vnstock_data can be imported
    probe,       \* collect_foreign_trade: what the probe did
    attempt,     \* collect_notes: per symbol, index of the period being fetched
    sfresh,      \* collect_notes: per symbol, its own CSV is fresh
    writes,      \* to_csv calls of this invocation: [thread, path, sym, pending] records
    hung,        \* the symbol whose vendor call never returns (NoHolder: none)
    logged,      \* the progress lines of this invocation: [completed, success, errors]
    fetches,     \* per symbol: how often its fetch function was started
    drains,      \* per symbol: how often the drain loop handled its future
    skipped,     \* collect_intraday: the number of symbols found fresh
    raisedAt,    \* collect_intraday: per symbol, the page whose request raised (0: none)
    \* ---- the incrementally merged table (MergeSpec)
    table,       \* which merge code owns the file
    csv,         \* the CSV file: [exists, readable, rows]
    saves,       \* number of saves made so far
    today,       \* the run day (the date column of the trending rows)
    last,        \* the most recent save: what was stored, what was fetched
    \* ---- collect_pipeline (PipelineSpec)
    requested,   \* --max-workers
    ntickers,    \* len(tickers)
    only,        \* --only
    max_workers, \* the local max_workers of collect_pipeline
    ppc,         \* position inside collect_pipeline
    passed,      \* the max_workers values handed to the pipeline tasks
    \* ---- fetch_intraday_one (PagingSpec)
    ipc,         \* per symbol: position of its thread in the page loop
    page,        \* per symbol: the loop variable
    reqs,        \* per symbol: the pages requested so far, in order
    got,         \* per symbol: what each requested page returned
    ilock,       \* holder of collect_intraday's _api_lock
    \* ---- the ThreadPoolExecutor of a batch (PoolSpec)
    fut,         \* per submitted symbol: the state of its future
    \* ---- collect_mas_statements (StatementsSpec)
    tpc,         \* position inside collect_mas_statements
    stmt,        \* index of the statement of the current loop iteration
    stfiles,     \* per statement: the symbols whose rows its CSV holds
    done_marker, \* the file _statements_done.csv
    tresult,     \* return value of collect_mas_statements
    tskipped,    \* this invocation found the marker fresh
    wroteToday,  \* the statements whose CSV some run of today wrote
    \* ---- collect_insights (InsightsSpec)
    gpc,         \* position inside collect_insights
    group,       \* the phase: the group of types sharing one fetch
    gfiles,      \* per type of the group: untargeted, or its file fresh or stale
    gdata,       \* the dict the group's fetch returned: its keys
    gfetches,    \* number of calls of the group's fetch function in this run
    gsuccess,    \* the types counted in `success`
    gerrors,     \* the types appended to `errors`
    gwritten     \* the types whose file this run wrote

bvars == <<collector, mpc, task, res, api_lock, waited, calls, ncalls,
           use_cafef, all_data, success, errors, completed, result, files,
           files0, checks, wrote, prevWrote, installed, probe, attempt,
           sfresh, writes, hung>>

mvars == <<table, csv, saves, today, last>>

pvars == <<requested, ntickers, only, max_workers, ppc, passed>>

ivars == <<ipc, page, reqs, got, ilock>>

xvars == <<logged, fetches, drains, skipped, raisedAt>>

qvars == <<fut>>

tvars == <<tpc, stmt, stfiles, done_marker, tresult, tskipped, wroteToday>>

gvars == <<gpc, group, gfiles, gdata, gfetches, gsuccess, gerrors, gwritten>>

\* the variables of the models that stand apart from the batch
ovars == <<qvars, tvars, gvars>>

vars == <<bvars, xvars, mvars, pvars, ivars, ovars>>

\* ------------------------------------------------------------------- files
Absent == [exists |-> FALSE, fresh |-> FALSE, rows |-> <<>>]

\* the symbol column of a table that came with one: the vendor's own value
VendorSymbol == 0

\* a file left by an earlier day (stale) or by an earlier run of today (fresh)
OldRow == [fetched |-> 0, symbol |-> VendorSymbol]
StaleFile == [exists |-> TRUE, fresh |-> FALSE, rows |-> <<OldRow>>]
FreshFile == [exists |-> TRUE, fresh |-> TRUE, rows |-> <<OldRow>>]

\* utils.is_file_fresh: false when the file does not exist, else whether its
\* modification time lies inside the freshness window
IsFileFresh(f) == f.exists /\ f.fresh

\* DataFrame.to_csv(path): the file is created or replaced, its mtime is now
ToCsv(rows) == [exists |-> TRUE, fresh |-> TRUE, rows |-> rows]

\* the file whose freshness decides the skip
CheckPath(c) == IF c = "mas_annual_plan" THEN "marker" ELSE "csv"

\* ------------------------------------------------------- per-collector code
StartPc(c) ==
    CASE c = "mas_annual_plan" -> "check"
      [] c = "intraday" -> "need_update"
      [] OTHER -> "listing"

AfterListing(c) ==
    CASE c = "reports" -> "entry"
      [] c = "foreign_trade" -> "probe"
      [] c = "prop_trade" -> "import"
      [] c = "notes" -> "submit"
      [] c = "mas_annual_plan" -> "submit"

\* where an importable vnstock_data leads: collect_prop_trade goes on to
\* _collect_concurrent, collect_mas_annual_plan to its listing call
AfterImport(c) == IF c = "mas_annual_plan" THEN "listing" ELSE "entry"

\* df is not None and not df.empty
NonEmpty(r) == r \in {"rows", "symrows"}

\* what the future of fetch(symbol) holds, given what the vendor call did:
\* collect_reports.fetch lets the exception through, the other fetch
\* functions catch it and return an empty DataFrame; collect_notes.fetch
\* returns an empty DataFrame when no period gave a non-empty table
FetchResult(c, outcome) ==
    CASE c = "reports" -> outcome
      [] c = "notes" -> IF NonEmpty(outcome) THEN outcome ELSE "empty"
      [] OTHER -> IF outcome = "raise" THEN "empty" ELSE outcome

\* collect_notes.fetch tries the next period when this one gave nothing
TriesNextPeriod(c, outcome, n) ==
    c = "notes" /\ ~NonEmpty(outcome) /\ n < Len(Periods)

\* the data source a per-symbol fetch calls
FetchSourceCafef(c, uc) == "cafef"
FetchSource(c, uc) ==
    CASE c = "foreign_trade" -> IF uc THEN "cafef" ELSE "vci"
      [] c = "prop_trade" -> "cafef"
      [] c = "mas_annual_plan" -> "mas"
      [] c = "intraday" -> "kbs"
      [] OTHER -> "vci"

\* `if is_file_fresh(csv_path): ... return True`, the first statement of the batch
SkipsNever(fresh) == FALSE
Skips(fresh) == fresh

\* the drain loop's success counter: _collect_concurrent counts every future
\* that did not raise, collect_mas_annual_plan only the non-empty ones,
\* collect_notes the skipped and the non-empty ones, collect_intraday the
\* non-empty ones (whose CSV it has just written)
CountsOnlyNonEmpty(c, r) == NonEmpty(r)
CountsAlways(c, r) == TRUE
CountsAsSuccess(c, r) ==
    CASE c = "mas_annual_plan" -> NonEmpty(r)
      [] c = "notes" -> r = "skipped" \/ NonEmpty(r)
      [] c = "intraday" -> NonEmpty(r)
      [] OTHER -> r # "raise"

\* the symbol column of the rows of one result
\*   _collect_concurrent: `if add_symbol_col and "symbol" not in df.columns:
\*     df["symbol"] = symbol`, with symbol = futures[future]
\*   collect_mas_annual_plan, collect_notes: df["symbol"] = symbol always
TagsLastSubmitted(c, s, r) == NumSymbols
TagsCompletionIndex(c, s, r) == completed + 1
SymbolColumn(c, s, r) ==
    IF c \in {"mas_annual_plan", "notes"} THEN s
    ELSE IF r = "symrows" THEN VendorSymbol ELSE s

Tagged(c, s, r) == [fetched |-> s, symbol |-> SymbolColumn(c, s, r)]

\* the thread that runs the body of `for future in as_completed(futures)`
\* and the code after the pool, where every to_csv of a collector is
WriterIsWorker(s) == s
Writer(s) == MainThread

\* `with _api_lock:` is entered only when no thread holds the lock
CanAcquireAlways(holder) == TRUE
CanAcquire(holder) == holder = NoHolder

\* the position a thread is at after each step of _rate_limited_call
AfterAcquire == "wait"
AfterWait == "call"

\* leaving the with-block of _rate_limited_call, which holds wait() only
LockKeptForCall(holder, s) == holder
LockAfterWait(holder, s) == IF holder = s THEN NoHolder ELSE holder

\* the tail of the batch: write only when something was accumulated
ShouldWriteAlways(acc) == TRUE
ShouldWrite(acc) == acc # <<>>

\* the return value of the batch
ReturnValueHasData(succ) == all_data # <<>>
ReturnValue(succ) == succ > 0

\* `for future in as_completed(futures)` yields a future once, when it is done
YieldsAgain(t) == t \in {"done", "drained"}
Yields(t) == t = "done"

\* `if completed % 20 == 0 or completed == top_n` (% 10 and
\* len(need_update) in collect_intraday)
ProgressEvery(c) == IF c = "intraday" THEN 10 ELSE 20
LogsProgress(c, n, total) == n % ProgressEvery(c) = 0 \/ n = total

\* the symbols handed to executor.submit
Submitted == {s \in Symbols : task[s] # "none"}

\* some future of the batch is still queued or running
FetchPending == \E u \in Symbols : task[u] \in {"queued", "lock", "wait", "call"}

\* the with-block of the ThreadPoolExecutor is left when every future has
\* completed; the drain loop inside it has then handled each of them
PoolExitsEarly == TRUE
PoolExited == \A s \in Submitted : task[s] = "drained"

\* ThreadPoolExecutor(max_workers=MAX_WORKERS): a queued task is started
\* only by a pool thread that is not running another one
HasIdleWorkerAlways(running) == TRUE
HasIdleWorker(running) == running < MAX_WORKERS

\* the per-symbol CSV of collect_notes and collect_intraday; the combined
\* file of the other collectors belongs to no symbol
NoSymbol == 0
WritesPerSymbol(c) == c \in {"notes", "intraday"}
SymbolFile(s) == [exists |-> sfresh[s], fresh |-> sfresh[s]]

\* collect_intraday: `if is_file_fresh(csv_path, max_age_hours=6): skipped += 1
\* else: need_update.append(sym)`
NeedsUpdateAlways(fresh) == TRUE
NeedsUpdate(fresh) == ~fresh

\* ------------------------------------------------------------------- Init
Running == Cardinality({s \in Symbols : task[s] \in {"lock", "wait", "call"}})

\* the destination files a collector may find
InitFiles(c) ==
    IF c \in {"notes", "intraday"} THEN {[csv |-> Absent, marker |-> Absent]}
    ELSE {[csv |-> f, marker |-> IF c = "mas_annual_plan" THEN f ELSE Absent] :
             f \in {Absent, StaleFile, FreshFile}}

\* collect_notes and collect_intraday write one CSV per symbol, each fresh
\* or not
InitFresh(c) ==
    IF c \in {"notes", "intraday"} THEN [Symbols -> BOOLEAN]
    ELSE {[s \in Symbols |-> FALSE]}

\* the locals of a collector function as it is entered
Entered ==
    /\ task = [s \in Symbols |-> "none"]
    /\ res = [s \in Symbols |-> "unset"]
    /\ waited = [s \in Symbols |-> FALSE]
    /\ calls = {}
    /\ ncalls = 0
    /\ use_cafef = FALSE
    /\ all_data = <<>>
    /\ success = 0
    /\ errors = 0
    /\ completed = 0
    /\ result = FALSE
    /\ checks = 0
    /\ wrote = FALSE
    /\ probe = "unset"
    /\ attempt = [s \in Symbols |-> 1]
    /\ writes = {}
    /\ logged = {}
    /\ fetches = [s \in Symbols |-> 0]
    /\ drains = [s \in Symbols |-> 0]
    /\ skipped = 0
    /\ raisedAt = [s \in Symbols |-> 0]

BatchStart ==
    /\ collector \in Collectors \cup {"intraday"}
    /\ mpc = StartPc(collector)
    /\ api_lock = NoHolder
    /\ Entered
    /\ files \in InitFiles(collector)
    /\ files0 = files
    /\ sfresh \in InitFresh(collector)
    /\ prevWrote = FALSE
    /\ installed \in BOOLEAN

BatchInit == BatchStart /\ hung = NoHolder

\* ---------------------------------------------------- main thread actions
VendorCall(kind, gated, source) ==
    /\ calls' = calls \cup {[kind |-> kind, gated |-> gated, source |-> source]}
    /\ ncalls' = ncalls + 1

\* _get_symbols: the listing call, made on the main thread without the
\* limiter and outside any try-block; main() calls the collector outside
\* any try-block too, so an exception of the listing call leaves main()
Listing ==
    /\ mpc = "listing"
    /\ VendorCall("listing", FALSE, "vci")
    /\ \E ok \in BOOLEAN :
          mpc' = IF ok THEN AfterListing(collector) ELSE "escaped"
    /\ UNCHANGED <<collector, task, res, api_lock, waited, use_cafef,
                   all_data, success, errors, completed, result, files,
                   files0, checks, wrote, prevWrote, installed, probe,
                   attempt, sfresh, writes, hung>>
    /\ UNCHANGED <<xvars, mvars, pvars, ivars, ovars>>

\* `try: from vnstock_data import ... except ImportError: return False`
ImportCheck ==
    /\ mpc = "import"
    /\ IF installed
       THEN mpc' = AfterImport(collector) /\ UNCHANGED result
       ELSE mpc' = "returned" /\ result' = FALSE
    /\ UNCHANGED <<collector, task, res, api_lock, waited, calls, ncalls,
                   use_cafef, all_data, success, errors, completed, files,
                   files0, checks, wrote, prevWrote, installed, probe,
                   attempt, sfresh, writes, hung>>
    /\ UNCHANGED <<xvars, mvars, pvars, ivars, ovars>>

\* collect_foreign_trade: inside one try-block the import and then
\* test.foreign_trade(...), called directly
Probe ==
    /\ mpc = "probe"
    /\ IF installed
       THEN \E o \in VendorOutcomes :
               /\ VendorCall("probe", FALSE, "cafef")
               /\ probe' = o
               /\ use_cafef' = NonEmpty(o)
       ELSE /\ probe' = "import_error"
            /\ use_cafef' = FALSE
            /\ UNCHANGED <<calls, ncalls>>
    /\ mpc' = "entry"
    /\ UNCHANGED <<collector, task, res, api_lock, waited,
                   all_data, success, errors, completed, result, files,
                   files0, checks, wrote, prevWrote, installed,
                   attempt, sfresh, writes, hung>>
    /\ UNCHANGED <<xvars, mvars, pvars, ivars, ovars>>

\* executor.submit(fetch_func, sym) for every symbol, counters zeroed
SubmitAll ==
    /\ task' = [s \in Symbols |-> "queued"]
    /\ all_data' = <<>>
    /\ success' = 0
    /\ errors' = 0
    /\ completed' = 0
    /\ mpc' = "drain"

\* _collect_concurrent, from its first line to the submission of the futures
Entry ==
    /\ mpc = "entry"
    /\ checks' = checks + 1
    /\ IF Skips(IsFileFresh(files[CheckPath(collector)]))
       THEN /\ result' = TRUE
            /\ mpc' = "returned"
            /\ UNCHANGED <<task, all_data, success, errors, completed>>
       ELSE /\ SubmitAll
            /\ UNCHANGED result
    /\ UNCHANGED <<collector, res, api_lock, waited, calls, ncalls,
                   use_cafef, files, files0, wrote, prevWrote, installed,
                   probe, attempt, sfresh, writes, hung>>
    /\ UNCHANGED <<xvars, mvars, pvars, ivars, ovars>>

\* collect_mas_annual_plan: the marker check made before the import and the
\* listing call
MasCheck ==
    /\ mpc = "check"
    /\ checks' = checks + 1
    /\ IF Skips(IsFileFresh(files[CheckPath(collector)]))
       THEN /\ result' = TRUE
            /\ mpc' = "returned"
       ELSE /\ mpc' = "import"
            /\ UNCHANGED result
    /\ UNCHANGED <<collector, task, res, api_lock, waited, calls, ncalls,
                   use_cafef, all_data, success, errors, completed, files,
                   files0, wrote, prevWrote, installed, probe, attempt,
                   sfresh, writes, hung>>
    /\ UNCHANGED <<xvars, mvars, pvars, ivars, ovars>>

\* collect_mas_annual_plan, collect_notes: the pool is created after the
\* listing call
MasSubmit ==
    /\ mpc = "submit"
    /\ SubmitAll
    /\ UNCHANGED <<collector, res, api_lock, waited, calls, ncalls,
                   use_cafef, result, files, files0, checks, wrote, prevWrote,
                   installed, probe, attempt, sfresh, writes, hung>>
    /\ UNCHANGED <<xvars, mvars, pvars, ivars, ovars>>

\* one iteration of `for future in as_completed(futures)`: the progress line
\* is logged before the result is looked at; collect_notes and
\* collect_intraday write the symbol's own CSV here, the other collectors
\* accumulate
Drain(s) ==
    /\ mpc = "drain"
    /\ Yields(task[s])
    /\ task' = [task EXCEPT ![s] = "drained"]
    /\ drains' = [drains EXCEPT ![s] = drains[s] + 1]
    /\ completed' = completed + 1
    /\ logged' = IF LogsProgress(collector, completed + 1, Cardinality(Submitted))
                 THEN logged \cup {[completed |-> completed + 1,
                                    success |-> success, errors |-> errors]}
                 ELSE logged
    /\ IF WritesPerSymbol(collector)
       THEN /\ UNCHANGED all_data
            /\ IF NonEmpty(res[s])
               THEN /\ writes' = writes \cup {[thread |-> Writer(s), path |-> "symbol",
                                               sym |-> s, pending |-> FetchPending]}
                    /\ sfresh' = [sfresh EXCEPT ![s] = TRUE]
                    /\ wrote' = TRUE
               ELSE UNCHANGED <<writes, sfresh, wrote>>
       ELSE /\ all_data' = IF NonEmpty(res[s])
                           THEN Append(all_data, Tagged(collector, s, res[s]))
                           ELSE all_data
            /\ UNCHANGED <<writes, sfresh, wrote>>
    /\ IF CountsAsSuccess(collector, res[s])
       THEN success' = success + 1 /\ UNCHANGED errors
       ELSE errors' = errors + 1 /\ UNCHANGED success
    /\ UNCHANGED <<collector, mpc, res, api_lock, waited, calls, ncalls,
                   use_cafef, result, files, files0, checks, prevWrote,
                   installed, probe, attempt, hung>>
    /\ UNCHANGED <<fetches, skipped, raisedAt>>
    /\ UNCHANGED <<mvars, pvars, ivars, ovars>>

\* after the loop: pd.concat(all_data).to_csv(csv_path), return success > 0
Finish ==
    /\ mpc = "drain"
    /\ PoolExited
    /\ IF ShouldWrite(all_data)
       THEN /\ files' = [csv |-> ToCsv(all_data),
                         marker |-> IF collector = "mas_annual_plan"
                                    THEN ToCsv(<<>>) ELSE files.marker]
            /\ writes' = writes \cup
                  {[thread |-> MainThread, path |-> p, sym |-> NoSymbol,
                    pending |-> FetchPending] :
                      p \in IF collector = "mas_annual_plan"
                            THEN {"csv", "marker"} ELSE {"csv"}}
            /\ wrote' = TRUE
       ELSE UNCHANGED <<files, writes, wrote>>
    /\ result' = ReturnValue(success)
    /\ mpc' = "returned"
    /\ UNCHANGED <<collector, task, res, api_lock, waited, calls, ncalls,
                   use_cafef, all_data, success, errors, completed, files0,
                   checks, prevWrote, installed, probe, attempt, sfresh, hung>>
    /\ UNCHANGED <<xvars, mvars, pvars, ivars, ovars>>

\* the locals of the next collector invocation
Reentered ==
    /\ task' = [s \in Symbols |-> "none"]
    /\ res' = [s \in Symbols |-> "unset"]
    /\ waited' = [s \in Symbols |-> FALSE]
    /\ calls' = {}
    /\ ncalls' = 0
    /\ use_cafef' = FALSE
    /\ all_data' = <<>>
    /\ success' = 0
    /\ errors' = 0
    /\ completed' = 0
    /\ result' = FALSE
    /\ checks' = 0
    /\ wrote' = FALSE
    /\ probe' = "unset"
    /\ attempt' = [s \in Symbols |-> 1]
    /\ writes' = {}
    /\ logged' = {}
    /\ fetches' = [s \in Symbols |-> 0]
    /\ drains' = [s \in Symbols |-> 0]
    /\ skipped' = 0
    /\ raisedAt' = [s \in Symbols |-> 0]

\* the script is invoked again inside the same freshness window
NextRun ==
    /\ mpc = "returned"
    /\ Reentered
    /\ mpc' = StartPc(collector)
    /\ files0' = files
    /\ prevWrote' = wrote
    /\ UNCHANGED <<collector, api_lock, files, installed, sfresh, hung>>
    /\ UNCHANGED <<mvars, pvars, ivars, ovars>>

\* main(): `for t in targets: collector(top_n=args.top_n)`, the next data
\* type of the same script, which has destination files of its own
NextTarget ==
    /\ mpc = "returned"
    /\ Reentered
    /\ \E c \in SameScript(collector) :
          /\ collector' = c
          /\ mpc' = StartPc(c)
          /\ files' \in InitFiles(c)
          /\ sfresh' \in InitFresh(c)
    /\ files0' = files'
    /\ prevWrote' = FALSE
    /\ UNCHANGED <<api_lock, installed, hung>>
    /\ UNCHANGED <<mvars, pvars, ivars, ovars>>

\* --------------------------------------------------- pool thread actions
\* a pool thread takes the next queued task (FIFO) and runs fetch(symbol) up
\* to the `with _api_lock:` of _rate_limited_call; collect_notes.fetch
\* returns "skipped" at once when the symbol's own CSV is fresh
Start(s) ==
    /\ task[s] = "queued"
    /\ \A u \in Symbols : u < s => task[u] # "queued"
    /\ HasIdleWorker(Running)
    /\ fetches' = [fetches EXCEPT ![s] = fetches[s] + 1]
    /\ IF collector = "notes" /\ IsFileFresh(SymbolFile(s))
       THEN /\ task' = [task EXCEPT ![s] = "done"]
            /\ res' = [res EXCEPT ![s] = "skipped"]
       ELSE /\ task' = [task EXCEPT ![s] = "lock"]
            /\ UNCHANGED res
    /\ UNCHANGED <<collector, mpc, api_lock, waited, calls, ncalls,
                   use_cafef, all_data, success, errors, completed, result,
                   files, files0, checks, wrote, prevWrote, installed, probe,
                   attempt, sfresh, writes, hung>>
    /\ UNCHANGED <<logged, drains, skipped, raisedAt>>
    /\ UNCHANGED <<mvars, pvars, ivars, ovars>>

\* `with _api_lock:` entered, get_limiter().wait() begins
Acquire(s) ==
    /\ task[s] = "lock"
    /\ CanAcquire(api_lock)
    /\ api_lock' = s
    /\ task' = [task EXCEPT ![s] = AfterAcquire]
    /\ UNCHANGED <<collector, mpc, res, waited, calls, ncalls,
                   use_cafef, all_data, success, errors, completed, result,
                   files, files0, checks, wrote, prevWrote, installed, probe,
                   attempt, sfresh, writes, hung>>
    /\ UNCHANGED <<xvars, mvars, pvars, ivars, ovars>>

\* wait() returns and the with-block is left: the lock is released
WaitReturn(s) ==
    /\ task[s] = "wait"
    /\ waited' = [waited EXCEPT ![s] = TRUE]
    /\ api_lock' = LockAfterWait(api_lock, s)
    /\ task' = [task EXCEPT ![s] = AfterWait]
    /\ UNCHANGED <<collector, mpc, res, calls, ncalls,
                   use_cafef, all_data, success, errors, completed, result,
                   files, files0, checks, wrote, prevWrote, installed, probe,
                   attempt, sfresh, writes, hung>>
    /\ UNCHANGED <<xvars, mvars, pvars, ivars, ovars>>

\* `return func()`: the vendor call, made after the with-block, returns or
\* raises (the call of the hung symbol never does)
FuncReturn(s) ==
    /\ collector # "intraday"
    /\ task[s] = "call"
    /\ s # hung
    /\ \E o \in VendorOutcomes :
          IF TriesNextPeriod(collector, o, attempt[s])
          THEN /\ attempt' = [attempt EXCEPT ![s] = attempt[s] + 1]
               /\ task' = [task EXCEPT ![s] = "lock"]
               /\ UNCHANGED res
          ELSE /\ res' = [res EXCEPT ![s] = FetchResult(collector, o)]
               /\ task' = [task EXCEPT ![s] = "done"]
               /\ UNCHANGED attempt
    /\ VendorCall("fetch", waited[s], FetchSource(collector, use_cafef))
    /\ waited' = [waited EXCEPT ![s] = FALSE]
    /\ UNCHANGED <<collector, mpc, api_lock,
                   use_cafef, all_data, success, errors, completed, result,
                   files, files0, checks, wrote, prevWrote, installed, probe,
                   sfresh, writes, hung>>
    /\ UNCHANGED <<xvars, mvars, pvars, ivars, ovars>>

\* ================================================= incremental merge model
\* bounds of the merge model
MaxKey == 2
MaxFetch == 2
MaxSaves == 2

Tables == {"insights", "macro", "intraday", "news"}

\* values of the date/time column, and of the second key component (price
\* and volume of a tick, keyword of a trend)
Keys == 1..MaxKey
Keys2 == 1..MaxKey

\* in-memory type of the date/time column of a frame: what read_csv gives
\* back (plain strings) or what the vendor SDK may return (Timestamps)
KeyTypes == {"str", "ts"}

\* non-empty sequences over S of at most n elements
SeqsUpTo(S, n) == UNION {[1..m -> S] : m \in 1..n}

\* to_csv writes the text of a value: the in-memory type is not in the file
Format(r) == [k |-> r.k, k2 |-> r.k2, gen |-> r.gen]

\* pd.read_csv(csv_path) without parse_dates: a date/time column comes back
\* as strings
Parse(r) == [k |-> r.k, k2 |-> r.k2, typ |-> "str", gen |-> r.gen]

ReadCsv(f) == [i \in 1..Len(f.rows) |-> Parse(f.rows[i])]

WriteCsv(df) == [exists |-> TRUE, readable |-> TRUE,
                 rows |-> [i \in 1..Len(df) |-> Format(df[i])]]

\* the subset= of drop_duplicates: values of different types are different
DedupKey(tb, r) ==
    IF tb \in {"insights", "macro"} THEN <<r.typ, r.k>>
    ELSE <<r.typ, r.k, r.k2>>

\* the rows of seq at the indices I, in order
AtIndices(seq, I) ==
    [m \in 1..Cardinality(I) |->
        seq[CHOOSE i \in I : Cardinality({j \in I : j <= i}) = m]]

\* df.drop_duplicates(subset=..., keep="last" | "first")
DropDuplicates(tb, seq, keep) ==
    AtIndices(seq,
        {i \in DOMAIN seq :
            \A j \in DOMAIN seq :
                (IF keep = "last" THEN j > i ELSE j < i)
                    => DedupKey(tb, seq[j]) # DedupKey(tb, seq[i])})

\* sort_values(col) raises TypeError on a column that mixes strings and
\* Timestamps
SortRaises(seq) == \E i, j \in DOMAIN seq : seq[i].typ # seq[j].typ

\* df.sort_values("time"): some ordering of the rows that is ascending in
\* the column (the order of ties is not specified)
SortValues(seq) ==
    {[i \in DOMAIN seq |-> seq[p[i]]] :
        p \in {q \in Permutations(DOMAIN seq) :
                 \A i \in 1..(Len(seq) - 1) : seq[q[i]].k <= seq[q[i + 1]].k}}

\* the try-block of the merge: concat, drop_duplicates(keep="last") and,
\* except for the trending table, sort_values; an exception of sort_values
\* is swallowed by `except Exception: pass` after df was already rebound
Merged(tb, existing, df) ==
    LET d == DropDuplicates(tb, existing \o df, "last")
    IN IF tb = "news" \/ SortRaises(d) THEN {d} ELSE SortValues(d)

\* what one save leaves in the file
\*   insights / macro _save_incremental, collect_intraday: merge when the
\*     file exists, `except Exception: pass` when it cannot be read, then
\*     to_csv in every case
\*   collect_news: the read is not guarded, its exception reaches the outer
\*     handler and nothing is written
Saved(tb, f, df) ==
    IF ~f.exists THEN {WriteCsv(df)}
    ELSE IF ~f.readable THEN (IF tb = "news" THEN {f} ELSE {WriteCsv(df)})
    ELSE {WriteCsv(m) : m \in Merged(tb, ReadCsv(f), df)}

\* the frames a fetch can hand to the save
\*   insights / macro: rows of the vendor table, one column type per frame
\*   intraday: fetch_intraday_one's pages, de-duplicated (keep="first") and
\*     sorted by time
\*   news: analyze_trends' rows, date = today, one row per keyword
Stamp(seq, ty, g) ==
    [i \in DOMAIN seq |-> [k |-> seq[i][1], k2 |-> seq[i][2], typ |-> ty, gen |-> g]]

Frames(tb, day, g) ==
    CASE tb \in {"insights", "macro"} ->
            {Stamp(s, ty, g) : s \in SeqsUpTo(Keys \X {0}, MaxFetch), ty \in KeyTypes}
      [] tb = "intraday" ->
            UNION {SortValues(DropDuplicates(tb, Stamp(s, ty, g), "first")) :
                      s \in SeqsUpTo(Keys \X Keys2, MaxFetch), ty \in KeyTypes}
      [] tb = "news" ->
            {Stamp(s, "str", g) :
                s \in {q \in SeqsUpTo({day} \X Keys2, MaxFetch) :
                          \A i, j \in DOMAIN q : i # j => q[i] # q[j]}}

NoSave == [merged |-> FALSE, damaged |-> FALSE, prev |-> <<>>, new |-> <<>>]

MergeIdle ==
    /\ table = "insights"
    /\ csv = [exists |-> FALSE, readable |-> TRUE, rows |-> <<>>]
    /\ saves = 0
    /\ today = 1
    /\ last = NoSave

MergeInit ==
    /\ table \in Tables
    /\ csv = [exists |-> FALSE, readable |-> TRUE, rows |-> <<>>]
    /\ saves = 0
    /\ today = 1
    /\ last = NoSave

\* one run of the collector that fetched a non-empty frame and saved it
Save ==
    /\ saves < MaxSaves
    /\ \E df \in Frames(table, today, saves + 1) :
          /\ csv' \in Saved(table, csv, df)
          /\ last' = [merged |-> csv.exists /\ csv.readable,
                      damaged |-> csv.exists /\ ~csv.readable,
                      prev |-> csv.rows,
                      new |-> WriteCsv(df).rows]
    /\ saves' = saves + 1
    /\ UNCHANGED <<table, today>>
    /\ UNCHANGED <<bvars, xvars, pvars, ivars, ovars>>

\* the next run happens on a later day
NextDay ==
    /\ today < MaxKey
    /\ today' = today + 1
    /\ UNCHANGED <<table, csv, saves, last>>
    /\ UNCHANGED <<bvars, xvars, pvars, ivars, ovars>>

\* the stored file is damaged between two runs and can no longer be parsed
Damage ==
    /\ csv.exists /\ csv.readable
    /\ csv' = [csv EXCEPT !.readable = FALSE]
    /\ UNCHANGED <<table, saves, today, last>>
    /\ UNCHANGED <<bvars, xvars, pvars, ivars, ovars>>

BatchAtRest ==
    /\ collector = "reports"
    /\ mpc = "returned"
    /\ task = [s \in Symbols |-> "none"]
    /\ res = [s \in Symbols |-> "unset"]
    /\ api_lock = NoHolder
    /\ waited = [s \in Symbols |-> FALSE]
    /\ calls = {}
    /\ ncalls = 0
    /\ use_cafef = FALSE
    /\ all_data = <<>>
    /\ success = 0
    /\ errors = 0
    /\ completed = 0
    /\ result = FALSE
    /\ files = [csv |-> Absent, marker |-> Absent]
    /\ files0 = files
    /\ checks = 0
    /\ wrote = FALSE
    /\ prevWrote = FALSE
    /\ probe = "unset"
    /\ attempt = [s \in Symbols |-> 1]
    /\ sfresh = [s \in Symbols |-> FALSE]
    /\ writes = {}
    /\ hung = NoHolder
    /\ logged = {}
    /\ fetches = [s \in Symbols |-> 0]
    /\ drains = [s \in Symbols |-> 0]
    /\ skipped = 0
    /\ raisedAt = [s \in Symbols |-> 0]

BatchIdle == BatchAtRest /\ installed = TRUE

MergeNext ==
    \/ Save
    \/ NextDay
    \/ Damage


\* ====================================================== collect_pipeline
\* bounds of the pipeline model: the --max-workers values tried
MaxRequested == 4

Requested == (-1)..MaxRequested

\* ticker counts around the two thresholds of the scaling code
TickerCounts == {1, 199, 200, 201, 202, 499, 500, 501, 502}

PipelineKinds == {"none", "ohlcv", "financials"}

Min(a, b) == IF a <= b THEN a ELSE b
Max(a, b) == IF a >= b THEN a ELSE b

\* `if len(tickers) > 200: max_workers = min(max_workers, 2)` followed by
\* `if len(tickers) > 500: max_workers = 1`
ScaledNever(req, n) == req
ScaledWorkers(req, n) ==
    LET w == IF n > 200 THEN Min(req, 2) ELSE req
    IN IF n > 500 THEN 1 ELSE w

PipelineIdle ==
    /\ requested = 3
    /\ ntickers = 1
    /\ only = "none"
    /\ max_workers = 3
    /\ ppc = "done"
    /\ passed = <<>>

\* collect_pipeline with its ticker list resolved
PipelineInit ==
    /\ requested \in Requested
    /\ ntickers \in TickerCounts
    /\ only \in PipelineKinds
    /\ max_workers = requested
    /\ ppc = "scale"
    /\ passed = <<>>

\* the two `if len(tickers) > ...` statements
Scale ==
    /\ ppc = "scale"
    /\ max_workers' = ScaledWorkers(max_workers, ntickers)
    /\ ppc' = "ohlcv"
    /\ UNCHANGED <<requested, ntickers, only, passed>>
    /\ UNCHANGED <<bvars, xvars, mvars, ivars, ovars>>

\* `if only is None or only == "ohlcv": run_ohlcv_pipeline(tickers, max_workers, ...)`
RunOhlcv ==
    /\ ppc = "ohlcv"
    /\ passed' = IF only \in {"none", "ohlcv"} THEN Append(passed, max_workers) ELSE passed
    /\ ppc' = "financials"
    /\ UNCHANGED <<requested, ntickers, only, max_workers>>
    /\ UNCHANGED <<bvars, xvars, mvars, ivars, ovars>>

\* `if only is None or only == "financials": run_financial_pipeline(tickers, max_workers, ...)`
RunFinancial ==
    /\ ppc = "financials"
    /\ passed' = IF only \in {"none", "financials"} THEN Append(passed, max_workers) ELSE passed
    /\ ppc' = "done"
    /\ UNCHANGED <<requested, ntickers, only, max_workers>>
    /\ UNCHANGED <<bvars, xvars, mvars, ivars, ovars>>

PipelineNext ==
    \/ Scale
    \/ RunOhlcv
    \/ RunFinancial

\* ==================================================== fetch_intraday_one
MAX_PAGES == 20

\* holders of collect_intraday's _api_lock: the thread of this symbol or a
\* pool thread fetching another symbol
Fetcher == 1
OtherThread == 2

\* what one stock.quote.intraday(page_size=100, page=p) call can do: a page
\* of at least 100 rows, a page of 1 to 99 rows, an empty table, None, or
\* an exception
PageOutcomes == {"full", "short", "empty", "none", "raise"}

\* the page loop ends on an exception (caught around the whole loop), on
\* `df is None or df.empty`, on `len(df) < 100`, and when range(1,
\* MAX_PAGES + 1) is exhausted
IgnoresShortPage(o, p) == o \in {"empty", "none", "raise"} \/ p >= MAX_PAGES
LoopEnds(o, p) == o # "full" \/ p >= MAX_PAGES

PagingIdle ==
    /\ ipc = "done"
    /\ page = 1
    /\ reqs = <<>>
    /\ got = <<>>
    /\ ilock = NoHolder

\* the pool task fetch_intraday_one(symbol) has just started
PagingInit ==
    /\ ipc = "lock"
    /\ page = 1
    /\ reqs = <<>>
    /\ got = <<>>
    /\ ilock \in {NoHolder, OtherThread}

\* _rate_limited_call: `with _api_lock:` entered
PageAcquire ==
    /\ ipc = "lock"
    /\ CanAcquire(ilock)
    /\ ilock' = Fetcher
    /\ ipc' = AfterAcquire
    /\ UNCHANGED <<page, reqs, got>>
    /\ UNCHANGED <<bvars, xvars, mvars, pvars, ovars>>

\* wait() returned, the lock is released and the page request is sent
PageRequest ==
    /\ ipc = "wait"
    /\ ilock' = LockAfterWait(ilock, Fetcher)
    /\ reqs' = Append(reqs, page)
    /\ ipc' = AfterWait
    /\ UNCHANGED <<page, got>>
    /\ UNCHANGED <<bvars, xvars, mvars, pvars, ovars>>

\* the request returns or raises; the loop goes on to the next page or ends
PageReturn ==
    /\ ipc = "call"
    /\ \E o \in PageOutcomes :
          /\ got' = Append(got, o)
          /\ IF LoopEnds(o, page)
             THEN ipc' = "done" /\ UNCHANGED page
             ELSE ipc' = "lock" /\ page' = page + 1
    /\ UNCHANGED <<reqs, ilock>>
    /\ UNCHANGED <<bvars, xvars, mvars, pvars, ovars>>

\* a pool thread fetching another symbol takes or releases the lock
OtherAcquire ==
    /\ CanAcquire(ilock)
    /\ ilock' = OtherThread
    /\ UNCHANGED <<ipc, page, reqs, got>>
    /\ UNCHANGED <<bvars, xvars, mvars, pvars, ovars>>

OtherRelease ==
    /\ ilock = OtherThread
    /\ ilock' = LockAfterWait(ilock, OtherThread)
    /\ UNCHANGED <<ipc, page, reqs, got>>
    /\ UNCHANGED <<bvars, xvars, mvars, pvars, ovars>>

PagingNext ==
    \/ PageAcquire
    \/ PageRequest
    \/ PageReturn
    \/ OtherAcquire
    \/ OtherRelease

\* ====================================================== collect_intraday
\* bound of the batch model: the number of full pages (100 rows) the vendor
\* has for a symbol
MaxFullPages == 1

\* what fetch_intraday_one returns when its loop ends at page p with outcome
\* o: all_pages holds the pages 1..p-1 (all full) and page p when it had
\* rows; an exception of any request leaves the function through `except
\* Exception: return pd.DataFrame()`, all_pages being dropped
KeepsFetchedPages(o, p) ==
    IF p > 1 \/ o \in {"full", "short"} THEN "rows" ELSE "empty"
PagesResult(o, p) ==
    IF o = "raise" THEN "empty"
    ELSE IF p > 1 \/ o \in {"full", "short"} THEN "rows" ELSE "empty"

\* collect_intraday, from its first line to the submission of need_update:
\* one freshness check per symbol, `return True` when nothing needs an update
NeedUpdate ==
    /\ mpc = "need_update"
    /\ checks' = checks + NumSymbols
    /\ LET need_update == {s \in Symbols : NeedsUpdate(IsFileFresh(SymbolFile(s)))}
       IN /\ skipped' = NumSymbols - Cardinality(need_update)
          /\ IF need_update = {}
             THEN /\ result' = TRUE
                  /\ mpc' = "returned"
                  /\ UNCHANGED task
             ELSE /\ task' = [s \in Symbols |->
                                IF s \in need_update THEN "queued" ELSE "none"]
                  /\ mpc' = "drain"
                  /\ UNCHANGED result
    /\ UNCHANGED <<collector, res, api_lock, waited, calls, ncalls, use_cafef,
                   all_data, success, errors, completed, files, files0, wrote,
                   prevWrote, installed, probe, attempt, sfresh, writes, hung>>
    /\ UNCHANGED <<logged, fetches, drains, raisedAt>>
    /\ UNCHANGED <<mvars, pvars, ivars, ovars>>

\* fetch_intraday_one: one page request returns or raises; the loop goes on
\* to the next page through _rate_limited_call or the function returns
PageFetched(s) ==
    /\ collector = "intraday"
    /\ task[s] = "call"
    /\ s # hung
    /\ \E o \in PageOutcomes :
          /\ o = "full" => attempt[s] <= MaxFullPages
          /\ raisedAt' = IF o = "raise" THEN [raisedAt EXCEPT ![s] = attempt[s]]
                         ELSE raisedAt
          /\ IF LoopEnds(o, attempt[s])
             THEN /\ res' = [res EXCEPT ![s] = PagesResult(o, attempt[s])]
                  /\ task' = [task EXCEPT ![s] = "done"]
                  /\ UNCHANGED attempt
             ELSE /\ attempt' = [attempt EXCEPT ![s] = attempt[s] + 1]
                  /\ task' = [task EXCEPT ![s] = "lock"]
                  /\ UNCHANGED res
    /\ VendorCall("fetch", waited[s], FetchSource(collector, use_cafef))
    /\ waited' = [waited EXCEPT ![s] = FALSE]
    /\ UNCHANGED <<collector, mpc, api_lock,
                   use_cafef, all_data, success, errors, completed, result,
                   files, files0, checks, wrote, prevWrote, installed, probe,
                   sfresh, writes, hung>>
    /\ UNCHANGED <<logged, fetches, drains, skipped>>
    /\ UNCHANGED <<mvars, pvars, ivars, ovars>>

\* ==================================================== ThreadPoolExecutor
\* bound of the pool model: the number of symbols submitted to one pool
NumSubmitted == 6

Futures == 1..NumSubmitted

PoolRunning == Cardinality({k \in Futures : fut[k] = "running"})

PoolIdle == fut = [k \in Futures |-> "done"]

\* `futures = {executor.submit(fetch_func, sym): sym for sym in symbols}`:
\* every symbol is queued up front
PoolInit == fut = [k \in Futures |-> "queued"]

\* a pool thread with nothing to run takes the oldest queued work item
PoolStart(k) ==
    /\ fut[k] = "queued"
    /\ \A j \in Futures : j < k => fut[j] # "queued"
    /\ HasIdleWorker(PoolRunning)
    /\ fut' = [fut EXCEPT ![k] = "running"]
    /\ UNCHANGED <<bvars, xvars, mvars, pvars, ivars, tvars, gvars>>

\* the fetch function returns or raises: the future completes and its
\* thread is free again
PoolReturn(k) ==
    /\ fut[k] = "running"
    /\ fut' = [fut EXCEPT ![k] = "done"]
    /\ UNCHANGED <<bvars, xvars, mvars, pvars, ivars, tvars, gvars>>

PoolNext ==
    \/ \E k \in Futures : PoolStart(k)
    \/ \E k \in Futures : PoolReturn(k)

\* ================================================ collect_mas_statements
Statements == <<"income_statement", "balance_sheet", "cash_flow", "ratio">>

NoStatementFiles == [i \in DOMAIN Statements |-> {}]

StatementsIdle ==
    /\ tpc = "returned"
    /\ stmt = 1
    /\ stfiles = NoStatementFiles
    /\ done_marker = Absent
    /\ tresult = FALSE
    /\ tskipped = FALSE
    /\ wroteToday = {}

\* the first run of a day: the marker is absent or was left by an earlier day
StatementsInit ==
    /\ tpc = "check"
    /\ stmt = 1
    /\ stfiles = NoStatementFiles
    /\ done_marker \in {Absent, StaleFile}
    /\ tresult = FALSE
    /\ tskipped = FALSE
    /\ wroteToday = {}

\* `if is_file_fresh(check_path): return True`
StatementsCheck ==
    /\ tpc = "check"
    /\ IF IsFileFresh(done_marker)
       THEN /\ tresult' = TRUE
            /\ tskipped' = TRUE
            /\ tpc' = "returned"
       ELSE /\ tpc' = "import"
            /\ UNCHANGED <<tresult, tskipped>>
    /\ UNCHANGED <<stmt, stfiles, done_marker, wroteToday>>
    /\ UNCHANGED <<bvars, xvars, mvars, pvars, ivars, qvars, gvars>>

\* `try: from vnstock_data import Finance ... except ImportError: return False`
StatementsImport ==
    /\ tpc = "import"
    /\ IF installed
       THEN tpc' = "listing" /\ UNCHANGED tresult
       ELSE tpc' = "returned" /\ tresult' = FALSE
    /\ UNCHANGED <<stmt, stfiles, done_marker, tskipped, wroteToday>>
    /\ UNCHANGED <<bvars, xvars, mvars, pvars, ivars, qvars, gvars>>

\* symbols = _get_symbols("VCI", top_n), outside any try-block
StatementsListing ==
    /\ tpc = "listing"
    /\ \E ok \in BOOLEAN : tpc' = IF ok THEN "batch" ELSE "escaped"
    /\ UNCHANGED <<stmt, stfiles, done_marker, tresult, tskipped, wroteToday>>
    /\ UNCHANGED <<bvars, xvars, mvars, pvars, ivars, qvars, gvars>>

\* one iteration of `for stmt in statements`: the pool fetches the statement
\* for every symbol (fetch catches every exception), the non-empty tables
\* are combined and written when there is one; after the last iteration
\* the marker is written and True returned, whatever was fetched
StatementBatch ==
    /\ tpc = "batch"
    /\ \E f \in [Symbols -> VendorOutcomes] :
          LET all_rows == {s \in Symbols : NonEmpty(FetchResult("mas_statements", f[s]))}
          IN /\ stfiles' = IF all_rows # {}
                           THEN [stfiles EXCEPT ![stmt] = all_rows] ELSE stfiles
             /\ wroteToday' = IF all_rows # {}
                              THEN wroteToday \cup {Statements[stmt]} ELSE wroteToday
    /\ IF stmt < Len(Statements)
       THEN /\ stmt' = stmt + 1
            /\ UNCHANGED <<tpc, done_marker, tresult>>
       ELSE /\ done_marker' = ToCsv(<<>>)
            /\ tresult' = TRUE
            /\ tpc' = "returned"
            /\ UNCHANGED stmt
    /\ UNCHANGED tskipped
    /\ UNCHANGED <<bvars, xvars, mvars, pvars, ivars, qvars, gvars>>

\* the script is run again on the same day
StatementsRerun ==
    /\ tpc = "returned"
    /\ tpc' = "check"
    /\ stmt' = 1
    /\ tresult' = FALSE
    /\ tskipped' = FALSE
    /\ UNCHANGED <<stfiles, done_marker, wroteToday>>
    /\ UNCHANGED <<bvars, xvars, mvars, pvars, ivars, qvars, gvars>>

StatementsNext ==
    \/ StatementsCheck
    \/ StatementsImport
    \/ StatementsListing
    \/ StatementBatch
    \/ StatementsRerun

\* ====================================================== collect_insights
\* the phases of collect_insights whose types share one fetch
InsightGroups == <<"index", "pe_pb", "movers">>

GroupTypes(g) ==
    CASE g = "index" -> {"value", "volume", "deal", "foreign_buy", "foreign_sell"}
      [] g = "pe_pb" -> {"pe", "pb"}
      [] g = "movers" -> {"gainer", "loser"}

\* a type is not in `targets`, or it is and market_<type>.csv is fresh, or
\* it is and the file is absent or old
FileStates == {"untargeted", "fresh", "stale"}

\* the dicts a group's fetch function can return: collect_index_history and
\* collect_market_pe_pb one entry per column found, collect_top_movers both
\* entries or none
FetchResults(g) ==
    IF g = "movers" THEN {{}, GroupTypes(g)} ELSE SUBSET GroupTypes(g)

\* `index_types & set(targets)`
Targeted == {t \in DOMAIN gfiles : gfiles[t] # "untargeted"}

\* need_fetch: `if not is_file_fresh(...): need_fetch = True; break` over
\* the targeted types of the group
FetchesWhenTargeted(T) == T # {}
NeedFetch(T) == \E t \in T : gfiles[t] # "fresh"

\* the save loop: `if is_file_fresh(csv_path): success += 1` comes first
KeepsFresh(state) == state = "fresh"

InsightsIdle ==
    /\ gpc = "returned"
    /\ group = 1
    /\ gfiles = [t \in GroupTypes(InsightGroups[1]) |-> "untargeted"]
    /\ gdata = {}
    /\ gfetches = 0
    /\ gsuccess = {}
    /\ gerrors = {}
    /\ gwritten = {}

InsightsInit ==
    /\ gpc = "fetch"
    /\ group = 1
    /\ gfiles \in [GroupTypes(InsightGroups[1]) -> FileStates]
    /\ gdata = {}
    /\ gfetches = 0
    /\ gsuccess = {}
    /\ gerrors = {}
    /\ gwritten = {}

\* the first half of a phase: need_fetch is computed and the group's fetch
\* function is called inside a try-block (an exception leaves the dict empty)
GroupFetch ==
    /\ gpc = "fetch"
    /\ IF NeedFetch(Targeted)
       THEN /\ \E d \in FetchResults(InsightGroups[group]), raised \in BOOLEAN :
                  gdata' = IF raised THEN {} ELSE d
            /\ gfetches' = gfetches + 1
       ELSE UNCHANGED <<gdata, gfetches>>
    /\ gpc' = "save"
    /\ UNCHANGED <<group, gfiles, gsuccess, gerrors, gwritten>>
    /\ UNCHANGED <<bvars, xvars, mvars, pvars, ivars, qvars, tvars>>

\* the second half: `for t in index_types & set(targets)`: a fresh file is
\* counted, a fetched type is saved and counted, the rest are errors
GroupSave ==
    /\ gpc = "save"
    /\ LET kept == {t \in Targeted : KeepsFresh(gfiles[t])}
           saved == {t \in Targeted \ kept : t \in gdata}
       IN /\ gsuccess' = gsuccess \cup kept \cup saved
          /\ gwritten' = gwritten \cup saved
          /\ gerrors' = gerrors \cup (Targeted \ (kept \cup saved))
    /\ gpc' = "next"
    /\ UNCHANGED <<group, gfiles, gdata, gfetches>>
    /\ UNCHANGED <<bvars, xvars, mvars, pvars, ivars, qvars, tvars>>

\* the next phase, with the files of its own types
NextGroup ==
    /\ gpc = "next"
    /\ group < Len(InsightGroups)
    /\ group' = group + 1
    /\ gfiles' \in [GroupTypes(InsightGroups[group + 1]) -> FileStates]
    /\ gdata' = {}
    /\ gfetches' = 0
    /\ gpc' = "fetch"
    /\ UNCHANGED <<gsuccess, gerrors, gwritten>>
    /\ UNCHANGED <<bvars, xvars, mvars, pvars, ivars, qvars, tvars>>

\* phase 4: `if "evaluation" in targets`, a type with a fetch of its own
Evaluation ==
    /\ gpc = "next"
    /\ group = Len(InsightGroups)
    /\ \E state \in FileStates, raised \in BOOLEAN :
          /\ gsuccess' = IF state = "fresh" \/ (state = "stale" /\ ~raised)
                         THEN gsuccess \cup {"evaluation"} ELSE gsuccess
          /\ gwritten' = IF state = "stale" /\ ~raised
                         THEN gwritten \cup {"evaluation"} ELSE gwritten
          /\ gerrors' = IF state = "stale" /\ raised
                        THEN gerrors \cup {"evaluation"} ELSE gerrors
    /\ gpc' = "returned"
    /\ UNCHANGED <<group, gfiles, gdata, gfetches>>
    /\ UNCHANGED <<bvars, xvars, mvars, pvars, ivars, qvars, tvars>>

InsightsNext ==
    \/ GroupFetch
    \/ GroupSave
    \/ NextGroup
    \/ Evaluation

OthersIdle == PoolIdle /\ StatementsIdle /\ InsightsIdle

\* ================================================================= specs
Next ==
    \/ Listing
    \/ ImportCheck
    \/ Probe
    \/ Entry
    \/ MasCheck
    \/ MasSubmit
    \/ \E s \in Symbols : Drain(s)
    \/ Finish
    \/ NextRun
    \/ NextTarget
    \/ \E s \in Symbols : Start(s)
    \/ \E s \in Symbols : Acquire(s)
    \/ \E s \in Symbols : WaitReturn(s)
    \/ \E s \in Symbols : FuncReturn(s)

Init ==
    /\ BatchInit
    /\ collector \in Collectors
    /\ MergeIdle /\ PipelineIdle /\ PagingIdle /\ OthersIdle

Spec == Init /\ [][Next]_vars

\* collect_reports with one vendor call that never returns
HungInit ==
    /\ BatchStart
    /\ collector = "reports"
    /\ hung \in Symbols
    /\ MergeIdle /\ PipelineIdle /\ PagingIdle /\ OthersIdle

\* a step of some pool thread
PoolStep ==
    \E s \in Symbols : Start(s) \/ Acquire(s) \/ WaitReturn(s) \/ FuncReturn(s)

\* the steps of collect_reports (Finish needs every future, the hung one
\* included)
HungNext ==
    \/ Listing
    \/ Entry
    \/ \E s \in Symbols : Drain(s)
    \/ NextRun
    \/ NextTarget
    \/ PoolStep

\* the pool threads are scheduled: while one of them can take a step, one
\* of them eventually does
Fairness == WF_vars(PoolStep)

HungSpec == HungInit /\ [][HungNext]_vars /\ Fairness

\* the three shapes of a batch side by side: one combined file
\* (collect_reports), one file per symbol written in the drain loop
\* (collect_notes, collect_intraday); each invoked again inside the
\* freshness window
WriteInit ==
    /\ BatchInit
    /\ collector \in {"reports", "notes", "intraday"}
    /\ installed
    /\ MergeIdle /\ PipelineIdle /\ PagingIdle /\ OthersIdle

WriteNext ==
    \/ Listing
    \/ Entry
    \/ MasSubmit
    \/ NeedUpdate
    \/ \E s \in Symbols : Start(s)
    \/ \E s \in Symbols : Acquire(s)
    \/ \E s \in Symbols : WaitReturn(s)
    \/ \E s \in Symbols : FuncReturn(s)
    \/ \E s \in Symbols : PageFetched(s)
    \/ \E s \in Symbols : Drain(s)
    \/ Finish
    \/ NextRun

WriteSpec == WriteInit /\ [][WriteNext]_vars

\* collect_reports with every vendor call and every wait() returning, on a
\* day when reports.csv is there already and on a day when it is not
TermInit ==
    /\ BatchInit
    /\ collector = "reports"
    /\ installed
    /\ files.csv \in {Absent, FreshFile}
    /\ MergeIdle /\ PipelineIdle /\ PagingIdle /\ OthersIdle

\* a step of the invoking thread
MainStep ==
    \/ Listing
    \/ Entry
    \/ \E s \in Symbols : Drain(s)
    \/ Finish

TermNext ==
    \/ MainStep
    \/ PoolStep

\* the invoking thread and the pool threads are scheduled: while the
\* invoking thread can take a step it eventually does, and while some pool
\* thread can take a step one of them eventually does
TermFairness == WF_vars(MainStep) /\ WF_vars(PoolStep)

TermSpec == TermInit /\ [][TermNext]_vars /\ TermFairness

MergeSpecInit == MergeInit /\ BatchIdle /\ PipelineIdle /\ PagingIdle /\ OthersIdle

MergeSpec == MergeSpecInit /\ [][MergeNext]_vars

PipelineSpecInit == PipelineInit /\ BatchIdle /\ MergeIdle /\ PagingIdle /\ OthersIdle

PipelineSpec == PipelineSpecInit /\ [][PipelineNext]_vars

PagingSpecInit == PagingInit /\ BatchIdle /\ MergeIdle /\ PipelineIdle /\ OthersIdle

PagingSpec == PagingSpecInit /\ [][PagingNext]_vars

\* the pool of one batch, whatever the fetch function does
PoolSpecInit ==
    /\ PoolInit
    /\ BatchIdle /\ MergeIdle /\ PipelineIdle /\ PagingIdle
    /\ StatementsIdle /\ InsightsIdle

PoolSpec == PoolSpecInit /\ [][PoolNext]_vars

\* collect_mas_statements, run repeatedly on one day
StatementsSpecInit ==
    /\ StatementsInit
    /\ BatchAtRest /\ installed \in BOOLEAN
    /\ MergeIdle /\ PipelineIdle /\ PagingIdle
    /\ PoolIdle /\ InsightsIdle

StatementsSpec == StatementsSpecInit /\ [][StatementsNext]_vars

\* one run of collect_insights
InsightsSpecInit ==
    /\ InsightsInit
    /\ BatchIdle /\ MergeIdle /\ PipelineIdle /\ PagingIdle
    /\ PoolIdle /\ StatementsIdle

InsightsSpec == InsightsSpecInit /\ [][InsightsNext]_vars

TypeOK ==
    /\ mpc \in {"listing", "import", "probe", "entry", "check", "submit",
                "need_update", "drain", "returned", "escaped"}
    /\ \A s \in Symbols : task[s] \in {"none", "queued", "lock", "wait", "call", "done", "drained"}
    /\ api_lock \in Symbols \cup {NoHolder}

\* ================================================================= claims
\* the collectors whose batch is _collect_concurrent
UsesCollectConcurrent == collector \in {"reports", "foreign_trade", "prop_trade"}

\* this invocation went past the freshness check and ran the batch to its end
BatchReturned == mpc = "returned" /\ \A s \in Symbols : task[s] = "drained"

Raised == {s \in Symbols : res[s] = "raise"}
WithRows == {s \in Symbols : NonEmpty(res[s])}
\* the symbols whose fetches the rows of a file came from
RowOrigins(f) == {f.rows[i].fetched : i \in 1..Len(f.rows)}

\* C1 (as stated): func() runs while its thread still holds _api_lock, and no
\* two worker threads are inside a vendor call at the same time.
C1_CallUnderLock ==
    /\ \A s \in Symbols : task[s] = "call" => api_lock = s
    /\ \A s, u \in Symbols : task[s] = "call" /\ task[u] = "call" => s = u

\* C1 (amended): only wait() runs under _api_lock. A thread inside wait()
\* holds the lock, so at most one thread is inside wait() at a time, and a
\* thread inside its vendor call has released the lock.
C1_WaitUnderLock ==
    /\ \A s \in Symbols : task[s] = "wait" => api_lock = s
    /\ \A s \in Symbols : task[s] = "call" => api_lock # s

\* C1 witness: two threads are inside their vendor calls while a third one
\* is inside wait() holding the lock.
C1_Witness ==
    \E s, u, v \in Symbols :
        /\ s # u /\ s # v /\ u # v
        /\ task[s] = "wait" /\ api_lock = s
        /\ task[u] = "call" /\ task[v] = "call"

\* C2 (as stated): every vendor call issued for a symbol, the per-symbol
\* fetch and the probe call alike, is made by a thread that completed one
\* wait() since its previous vendor call.
C2_EveryCallGated ==
    \A c \in calls : c.kind \in {"fetch", "probe"} => c.gated

\* C3 (as stated): when the previous invocation wrote its outputs, the next
\* invocation in the same freshness window issues no vendor call, listing
\* calls included, and leaves the files as they were.
C3_Idempotent ==
    (prevWrote /\ mpc = "returned") => (ncalls = 0 /\ files = files0)

\* C4: when the destination is fresh as _collect_concurrent is entered, the
\* function has returned True right after one freshness check, with no
\* symbol submitted or fetched and no file touched.
C4_SkipShortCircuit ==
    (UsesCollectConcurrent /\ IsFileFresh(files0.csv) /\ checks > 0)
    => /\ mpc = "returned"
       /\ result = TRUE
       /\ checks = 1
       /\ \A s \in Symbols : task[s] = "none" /\ res[s] = "unset"
       /\ files = files0
       /\ all_data = <<>>

\* C4 witness: a first invocation of collect_reports that found the file fresh.
C4_Witness ==
    /\ collector = "reports" /\ ~prevWrote /\ mpc = "returned"
    /\ IsFileFresh(files0.csv) /\ result = TRUE /\ checks = 1

\* C5: when exactly one fetch raised and every other one returned a
\* non-empty table, all futures were drained, the written table holds
\* exactly the rows of the other symbols, errors = 1, and the function
\* returned (True) instead of raising.
C5_PartialFailure ==
    (UsesCollectConcurrent /\ BatchReturned
        /\ Cardinality(Raised) = 1 /\ Raised \cup WithRows = Symbols)
    => /\ errors = 1
       /\ success = NumSymbols - 1
       /\ completed = NumSymbols
       /\ files.csv.exists
       /\ Len(files.csv.rows) = NumSymbols - 1
       /\ RowOrigins(files.csv) = Symbols \ Raised
       /\ result = TRUE

\* C5 witness: the batch returned with the fetch of symbol 2 having raised.
C5_Witness ==
    /\ collector = "reports" /\ BatchReturned
    /\ Raised = {2} /\ WithRows = Symbols \ {2}
    /\ errors = 1 /\ RowOrigins(files.csv) = Symbols \ {2}

\* C6: a future that did not raise counts as a success even when it holds an
\* empty table or None: at the end success is the number of futures that
\* did not raise, errors the number that raised, and the written table has
\* one row per non-empty result and nothing else.
C6_EmptyCountsAsSuccess ==
    (UsesCollectConcurrent /\ BatchReturned)
    => /\ success = Cardinality(Symbols \ Raised)
       /\ errors = Cardinality(Raised)
       /\ WithRows # {} =>
             /\ Len(files.csv.rows) = Cardinality(WithRows)
             /\ RowOrigins(files.csv) = WithRows

\* C6 witness: AAA (1) one row, BBB (2) empty, CCC (3) raised.
C6_Witness ==
    /\ collector = "reports" /\ BatchReturned
    /\ res[1] = "rows" /\ res[2] = "empty" /\ res[3] = "raise"
    /\ success = 2 /\ errors = 1
    /\ files.csv.rows = <<Tagged("reports", 1, "rows")>>

\* C7 (as stated): the batch returns True exactly when some symbol yielded a
\* non-empty table; when every fetch raised or was empty it reports zero
\* successes and returns False.
C7_TrueIffNonEmpty ==
    (UsesCollectConcurrent /\ BatchReturned)
    => /\ result = (WithRows # {})
       /\ WithRows = {} => success = 0

\* C7 (amended): the batch returns True exactly when the destination was
\* fresh or at least one fetch returned without raising, empty or not; it
\* returns False only when every fetch raised.
C7_TrueIffNoRaise ==
    (UsesCollectConcurrent /\ mpc = "returned" /\ checks > 0)
    => result = (IsFileFresh(files0.csv) \/ Raised # Symbols)

\* C7 witness: every fetch returned an empty table or None; the batch wrote
\* nothing, counted every symbol as a success and returned True.
C7_Witness ==
    /\ UsesCollectConcurrent /\ BatchReturned
    /\ \A s \in Symbols : res[s] \in {"empty", "none"}
    /\ success = NumSymbols /\ result = TRUE /\ ~wrote

FileKey(tb, r) == IF tb \in {"insights", "macro"} THEN <<r.k, 0>> ELSE <<r.k, r.k2>>

FileKeys(tb, rows) == {FileKey(tb, rows[i]) : i \in 1..Len(rows)}

KeyLeq(a, b) == a[1] < b[1] \/ (a[1] = b[1] /\ a[2] <= b[2])

\* C9 (as stated): after an incremental save into an existing table
\* (insights, macro, intraday) the file holds exactly one row per
\* de-duplication key, and a key that was both stored and fetched again keeps
\* the newly fetched row.
C9_OneRowPerKey ==
    (table \in {"insights", "macro", "intraday"} /\ saves > 0 /\ last.merged)
    => /\ \A i, j \in 1..Len(csv.rows) :
             i # j => FileKey(table, csv.rows[i]) # FileKey(table, csv.rows[j])
       /\ \A i \in 1..Len(csv.rows) :
             FileKey(table, csv.rows[i]) \in FileKeys(table, last.new)
                => csv.rows[i].gen = saves

\* C10 (as stated): after each merge (insights, macro, intraday, news
\* trending) the rows of the written file are sorted ascending by the
\* de-duplication key.
C10_SortedByKey ==
    (saves > 0 /\ last.merged)
    => \A i, j \in 1..Len(csv.rows) :
          i < j => KeyLeq(FileKey(table, csv.rows[i]), FileKey(table, csv.rows[j]))


\* ---------------------------------------------------- error handling
\* C11 (as stated): a failure of the listing call is caught inside the
\* script, so that no exception leaves main() and the data types requested
\* after the failing one are still processed.
C11_ListingFailureCaught == mpc # "escaped"

\* C12 (as stated): when the prior CSV of an incrementally merged table
\* (insights, macro, intraday, news trending) exists but cannot be read, the
\* save replaces the file by exactly the newly fetched rows.
C12_UnreadableOverwritten ==
    (saves > 0 /\ last.damaged) => csv.rows = last.new

\* C13 (as stated): when vnstock_data cannot be imported, a collector that
\* needs it (collect_prop_trade, collect_mas_annual_plan) issues no vendor
\* call, writes no file and returns without raising.
C13_NoImportNoCall ==
    (~installed /\ collector \in {"prop_trade", "mas_annual_plan"})
    => /\ ncalls = 0
       /\ writes = {}
       /\ files = files0
       /\ mpc # "escaped"

C15_SourceChosenOnce ==
    collector = "foreign_trade"
    => /\ probe = "unset" => \A s \in Symbols : task[s] = "none"
       /\ probe # "unset" =>
             use_cafef = (probe \notin {"raise", "import_error", "empty", "none"})
       /\ \A c \in calls :
             c.kind = "fetch" =>
                /\ probe # "unset"
                /\ c.source = IF use_cafef THEN "cafef" ELSE "vci"

\* C15 witness: the probe gave an empty table, the batch ran on the
\* fallback source and returned, one symbol having given nothing.
C15_Witness ==
    /\ collector = "foreign_trade" /\ BatchReturned
    /\ probe = "empty" /\ ~use_cafef
    /\ [kind |-> "fetch", gated |-> TRUE, source |-> "vci"] \in calls
    /\ \E s, u \in Symbols : res[s] = "empty" /\ res[u] = "rows"

\* ---------------------------------------------------- symbol tagging
\* the rows of the accumulator and of the written file
BatchRows == {all_data[i] : i \in 1..Len(all_data)}
             \cup (IF wrote THEN {files.csv.rows[i] : i \in 1..Len(files.csv.rows)} ELSE {})

\* C17: in _collect_concurrent, in every completion order, a row that came
\* from a result without a symbol column carries the symbol passed to the
\* fetch that produced it; a result with a symbol column keeps its own.
C17_SymbolTagging ==
    UsesCollectConcurrent
    => \A r \in BatchRows :
          /\ res[r.fetched] = "rows" => r.symbol = r.fetched
          /\ res[r.fetched] = "symrows" => r.symbol = VendorSymbol

\* C17 witness: the futures completed in the order 3, 1; the result of 3
\* had no symbol column, the result of 1 had one; the file was written.
C17_Witness ==
    /\ collector = "reports" /\ BatchReturned /\ wrote
    /\ files.csv.rows = <<[fetched |-> 3, symbol |-> 3],
                          [fetched |-> 1, symbol |-> VendorSymbol]>>

C20_WaitSerialized ==
    /\ Cardinality({s \in Symbols : task[s] = "wait"}) <= 1
    /\ \A s \in Symbols : task[s] = "wait" => api_lock = s
    /\ \A c \in calls : c.kind = "fetch" => c.gated

\* C20 witness: one thread is inside wait() while two others are blocked at
\* the `with _api_lock:`.
C20_Witness ==
    \E s, u, v \in Symbols :
        /\ s # u /\ s # v /\ u # v
        /\ task[s] = "wait" /\ api_lock = s
        /\ task[u] = "lock" /\ task[v] = "lock"

\* ---------------------------------------------------- collect_pipeline
\* C16 (as stated): the worker count passed to the pipeline tasks never
\* exceeds the requested max_workers and is non-increasing as the ticker
\* count grows, for every requested value and ticker count.
C16_OnlyScalesDown ==
    ppc # "scale"
    => /\ max_workers <= requested
       /\ \A i \in 1..Len(passed) : passed[i] <= requested
       /\ \A n \in TickerCounts :
             n <= ntickers => max_workers <= ScaledWorkers(requested, n)

\* C16 (amended): the count passed is the requested value for at most 200
\* tickers, min(requested, 2) for 201 to 500 and 1 for more than 500; it
\* never exceeds max(requested, 1), and for a requested value of at least 1
\* it never exceeds the requested value and is non-increasing in the
\* ticker count.
C16_ScalesDownFromOne ==
    /\ \A i \in 1..Len(passed) :
          /\ passed[i] = (IF ntickers <= 200 THEN requested
                          ELSE IF ntickers <= 500 THEN Min(requested, 2)
                          ELSE 1)
          /\ passed[i] <= Max(requested, 1)
    /\ requested >= 1 =>
          /\ \A i \in 1..Len(passed) : passed[i] <= requested
          /\ \A n, m \in TickerCounts :
                n <= m => ScaledWorkers(requested, m) <= ScaledWorkers(requested, n)

\* C16 witness: 4 workers requested for 501 tickers, both pipelines were
\* handed 1.
C16_Witness ==
    /\ requested = 4 /\ ntickers = 501 /\ ppc = "done"
    /\ passed = <<1, 1>>

\* ---------------------------------------------------- intraday paging
\* C19: fetch_intraday_one requests pages 1, 2, ..., k in increasing order,
\* each request starting only after the previous one returned, k being at
\* most MAX_PAGES, and requests nothing after the first page that is empty,
\* None, short of 100 rows or raised.
C19_PagesInOrder ==
    /\ \A i \in 1..Len(reqs) : reqs[i] = i
    /\ Len(reqs) <= MAX_PAGES
    /\ Len(reqs) = Len(got) + (IF ipc = "call" THEN 1 ELSE 0)
    /\ \A i \in 1..Len(got) : got[i] # "full" => i = Len(reqs)

\* C19 witness: three pages were requested, the third one was short and
\* ended the loop.
C19_Witness ==
    /\ ipc = "done"
    /\ reqs = <<1, 2, 3>>
    /\ got = <<"full", "full", "short">>

\* ---------------------------------------------------- worker pool
\* C21: however many symbols are submitted, the number of fetch functions
\* executing at the same time never exceeds MAX_WORKERS.
C21_BoundedPool == PoolRunning <= MAX_WORKERS

\* C21 witness: MAX_WORKERS fetches are executing while a submitted symbol
\* is still queued.
C21_Witness ==
    /\ PoolRunning = MAX_WORKERS
    /\ \E k \in Futures : fut[k] = "queued"

\* ---------------------------------------------------- write timing
\* the symbols whose own CSV this invocation wrote
Written == {w.sym : w \in {v \in writes : v.path = "symbol"}}

C23_ProgressAccountsAll ==
    \A l \in logged : l.success + l.errors = l.completed

\* ---------------------------------------------------- accounting
\* C24: in _collect_concurrent every submitted symbol is fetched at most
\* once and drained at most once, and drained only after it was fetched;
\* after every iteration of the drain loop success + errors = completed =
\* the number of drained symbols; when the function has returned from the
\* loop every symbol was fetched once with one vendor call and drained once,
\* and completed = N.
C24_Accounting ==
    UsesCollectConcurrent
    => /\ \A s \in Symbols :
             /\ fetches[s] <= 1 /\ drains[s] <= 1
             /\ drains[s] = 1 => fetches[s] = 1 /\ task[s] = "drained"
       /\ success + errors = completed
       /\ completed = Cardinality({s \in Symbols : drains[s] = 1})
       /\ BatchReturned =>
             /\ completed = NumSymbols
             /\ \A s \in Symbols : fetches[s] = 1 /\ drains[s] = 1
             /\ ncalls = NumSymbols + 1
                         + (IF probe \in {"unset", "import_error"} THEN 0 ELSE 1)

\* C24 witness: the future of the last submitted symbol was drained first,
\* one fetch raised, and the batch returned with all of them accounted for.
C24_Witness ==
    /\ collector = "reports" /\ BatchReturned
    /\ Len(all_data) = NumSymbols - 1 /\ all_data[1].fetched = NumSymbols
    /\ errors = 1 /\ completed = NumSymbols

\* ---------------------------------------------------- collect_mas_statements
\* C25 (as stated): a run of collect_mas_statements is skipped as already
\* fresh only if a run of the same day wrote at least one statement CSV.
C25_MarkerOnlyWithData ==
    (tpc = "returned" /\ tskipped) => wroteToday # {}

\* ---------------------------------------------------- collect_intraday
\* C26: when the request of some page k of a symbol raised, fetch_intraday_one
\* has returned an empty table (the pages before k are dropped), the symbol
\* is counted as an error once drained, its CSV is not written and stays
\* as it was; success and errors count exactly the drained symbols with
\* and without rows, so the other symbols are counted and written as if
\* the failure had not happened.
C26_PageFailureAllOrNothing ==
    collector = "intraday"
    => /\ \A s \in Symbols :
             raisedAt[s] # 0 =>
                /\ task[s] \in {"done", "drained"}
                /\ res[s] = "empty"
                /\ s \notin Written
                /\ ~sfresh[s]
       /\ errors = Cardinality({s \in Symbols : task[s] = "drained" /\ ~NonEmpty(res[s])})
       /\ success = Cardinality({s \in Symbols : task[s] = "drained" /\ NonEmpty(res[s])})
       /\ Written = {s \in Symbols : task[s] = "drained" /\ NonEmpty(res[s])}

\* C26 witness: the second page of symbol 1 raised after a full first
\* page; symbol 1 was counted as the only error and the CSV of symbol 2 was
\* written.
C26_Witness ==
    /\ collector = "intraday" /\ mpc = "returned"
    /\ raisedAt[1] = 2 /\ res[1] = "empty" /\ 1 \notin Written
    /\ 2 \in Written /\ errors = 1

\* C27: collect_intraday checks the freshness of every symbol once, before
\* any fetch; a symbol is submitted exactly when its file was not fresh at
\* that check; a skipped symbol is never fetched; skipped + submitted =
\* total; when the function has returned success + errors = submitted and
\* the symbols counted as success are those whose CSV was written.
C27_FreshnessDecidedOnce ==
    (collector = "intraday" /\ mpc # "need_update")
    => /\ checks = NumSymbols
       /\ \A s \in Symbols :
             /\ s \in Submitted <=> (~sfresh[s] \/ s \in Written)
             /\ s \notin Submitted => fetches[s] = 0 /\ res[s] = "unset"
       /\ Submitted = {} => ncalls = 0
       /\ skipped + Cardinality(Submitted) = NumSymbols
       /\ success = Cardinality(Written)
       /\ mpc = "returned" => success + errors = Cardinality(Submitted)

\* C27 witness: one symbol was skipped as fresh, one was written and one
\* gave nothing.
C27_Witness ==
    /\ collector = "intraday" /\ mpc = "returned"
    /\ skipped = 1 /\ success = 1 /\ errors = 1
    /\ Cardinality(Written) = 1

\* ---------------------------------------------------- collect_insights
\* C28: in each phase of collect_insights the group's fetch function is
\* called at most once, and exactly when some targeted type of the group
\* has a file that is not fresh; after the save loop every targeted type
\* with a fresh file is counted as a success and was not written, also
\* when the fetch ran for a sibling type.
C28_GroupFetchedOnce ==
    /\ gfetches <= 1
    /\ gpc \in {"save", "next"} =>
          (gfetches = 1 <=> \E t \in DOMAIN gfiles : gfiles[t] = "stale")
    /\ gpc = "next" =>
          \A t \in DOMAIN gfiles :
              gfiles[t] = "fresh" => t \in gsuccess /\ t \notin gwritten

\* C28 witness: pe was fresh and pb stale; the fetch ran once and returned
\* both, pb was written and pe left alone, both counted.
C28_Witness ==
    /\ InsightGroups[group] = "pe_pb" /\ gpc = "next"
    /\ gfiles["pe"] = "fresh" /\ gfiles["pb"] = "stale"
    /\ gfetches = 1 /\ gdata = {"pe", "pb"}
    /\ "pe" \notin gwritten /\ "pb" \in gwritten
    /\ {"pe", "pb"} \subseteq gsuccess

\* ---------------------------------------------------- completion order
\* C29: when _collect_concurrent has returned, its success count, error
\* count, return value and the multiset of rows of the written file are
\* determined by the outcome of each symbol's fetch alone, whatever the
\* order in which the futures completed and were drained.
C29_OrderIndependent ==
    (UsesCollectConcurrent /\ BatchReturned)
    => /\ success = Cardinality({s \in Symbols : res[s] # "raise"})
       /\ errors = Cardinality({s \in Symbols : res[s] = "raise"})
       /\ result = (\E s \in Symbols : res[s] # "raise")
       /\ wrote = (\E s \in Symbols : NonEmpty(res[s]))
       /\ wrote =>
             /\ Len(files.csv.rows) = Cardinality(WithRows)
             /\ {files.csv.rows[i] : i \in 1..Len(files.csv.rows)}
                   = {[fetched |-> s,
                       symbol |-> IF res[s] = "symrows" THEN VendorSymbol ELSE s] :
                         s \in WithRows}

\* C29 witness: the rows of symbol 2 were drained before those of symbol 1
\* and the fetch of symbol 3 raised.
C29_Witness ==
    /\ UsesCollectConcurrent /\ BatchReturned /\ wrote
    /\ Len(files.csv.rows) = 2
    /\ files.csv.rows[1].fetched = 2 /\ files.csv.rows[2].fetched = 1
    /\ res[3] = "raise"

\* ---------------------------------------------------- termination
\* C30: under fair scheduling, with every vendor call and every wait()
\* returning, a batch that has submitted its futures eventually has drained
\* all of them, has the lock free and has returned from the combine-and-
\* write step; and every thread that waits for _api_lock eventually gets it.
C30_BatchTerminates ==
    /\ (mpc = "drain") ~>
          (/\ mpc = "returned"
           /\ api_lock = NoHolder
           /\ completed = NumSymbols
           /\ \A s \in Symbols : task[s] = "drained")
    /\ \A s \in Symbols : (task[s] = "lock") ~> (task[s] = "wait")

\* C30 witness: the batch has returned after writing its file, the lock is
\* free and every future was drained.
C30_Witness ==
    /\ mpc = "returned" /\ wrote /\ api_lock = NoHolder
    /\ completed = NumSymbols /\ \A s \in Symbols : drains[s] = 1

====
